---- MODULE Spec2Model ----
(***************************************************************************)
(* Bootstrap of the management service enclave                             *)
(* (services/management/enclave/src/lib.rs): the ECall handlers            *)
(* InitEnclave, StartService and FinalizeEnclave, and start_service, which *)
(* attests the enclave, verifies the signed enclave-info manifest, derives *)
(* the inbound and outbound attestation verifiers, and serves.             *)
(*                                                                         *)
(* Option<T> values are sequences: None is << >> and Some(x) is << x >>.   *)
(***************************************************************************)
EXTENDS Integers, Sequences, FiniteSets, TLC

\* ------------------------------------------------------------------ bounds
\* longest inbound allow-list (BUILD_CONFIG.inbound.management) considered
MaxAllowLen == 2
\* most connections the listener accepts during one run of the server
MaxConns == 2

\* --------------------------------------------------------------- universe
None == << >>
Some(x) == << x >>
IsSome(o) == o # None
Unwrap(o) == o[1]

STORAGE_SERVICE == "teaclave_storage_service"
\* role names an enclave-info manifest may carry
Roles == {"teaclave_frontend_service", "teaclave_execution_service", STORAGE_SERVICE}
\* enclave measurements (EnclaveAttr) a manifest may bind a role to
Identities == {"mr_a", "mr_b"}

AS_ROOT_CA_CERT == "as_root_ca_cert"
\* what a remote peer presents at handshake: a measurement, and the root its
\* attestation report chains to
Peers == [identity : Identities, root : {"as_root_ca_cert", "forged_root"}]
AUDITOR_PUBLIC_KEYS == {"auditor_key_1", "auditor_key_2"}

\* build configurations: every allow-list of 1..MaxAllowLen role names
AllowLists == UNION {[1..n -> Roles] : n \in 1..MaxAllowLen}

\* manifests: role name -> measurement, defined on any subset of the roles
Manifests == UNION {[D -> Identities] : D \in SUBSET Roles}
EmptyManifest == [r \in {} |-> "mr_a"]

\* enclave_info_bytes: well-formed bytes carry a manifest, malformed carry none
InfoBytes == {[wellformed |-> TRUE, roles |-> m] : m \in Manifests}
               \cup {[wellformed |-> FALSE, roles |-> EmptyManifest]}
\* auditor_signatures_bytes: the auditor keys whose signature over the bytes verifies
SignatureBytes == SUBSET AUDITOR_PUBLIC_KEYS

\* RuntimeConfig, the fields start_service reads
RuntimeConfigs ==
    [ listen_address     : {"listen_ok", "listen_unbindable"},
      attestation        : {"as_accepts", "as_rejects"},
      enclave_info_bytes : {None} \cup {Some(b) : b \in InfoBytes},
      auditor_signatures_bytes : {None} \cup {Some(s) : s \in SignatureBytes},
      storage_address    : {"storage_addr"} ]
NoConfig == << >>

VARIABLES
    INBOUND_SERVICES,               \* build-time allow-list (line 51)
    lifecycle,                      \* enclave lifecycle as the host drives it
    pc,                             \* position of the StartService ECall
    config,                         \* Option<RuntimeConfig> of the call in progress
    attested_tls_config,            \* line 62
    enclave_info,                   \* line 68
    accepted_enclave_attrs,         \* line 81
    server,                         \* line 97
    storage_service_enclave_attrs,  \* line 103
    storage_service_endpoint,       \* line 115
    service,                        \* line 118
    conns,                          \* connections the listener has accepted
    logged,                         \* error! at line 122 was written
    cause,                          \* internal failure cause of the last call
    result                          \* what the host received from its last command

locals == << attested_tls_config, enclave_info, accepted_enclave_attrs, server,
             storage_service_enclave_attrs, storage_service_endpoint, service >>
vars == << INBOUND_SERVICES, lifecycle, pc, config, attested_tls_config, enclave_info,
           accepted_enclave_attrs, server, storage_service_enclave_attrs,
           storage_service_endpoint, service, conns, logged, cause, result >>

\* ------------------------------------------------- collaborators' contracts
\* RemoteAttestation::generate_and_endorse + attested_tls_config (lines 62-67):
\* the attestation service endorses the report or the attestation fails
generate_and_endorse(attestation) ==
    IF attestation = "as_accepts"
    THEN Some([cert |-> "attested_cert", private_key |-> "enclave_key"])
    ELSE None

\* EnclaveInfo::verify_and_new (line 68): every auditor key must have signed,
\* and the bytes must parse into the role -> measurement table
verify_and_new(bytes, public_keys, signatures) ==
    IF public_keys \subseteq signatures /\ bytes.wellformed
    THEN Some(bytes.roles)
    ELSE None

\* EnclaveInfo::get_enclave_attr (lines 85, 104)
get_enclave_attr(info, role) ==
    IF role \in DOMAIN info THEN Some(info[role]) ELSE None

Range(seq) == {seq[i] : i \in DOMAIN seq}

\* the attestation report verifier a configuration carries, applied to the
\* peer's certificate at handshake: its measurement must be one of the accepted
\* ones and its report must chain to the root certificate; a configuration
\* without a verifier checks nothing
PeerVerified(tls_config, peer) ==
    \/ tls_config.verifier = None
    \/ /\ peer.identity \in Range(Unwrap(tls_config.verifier).accepted)
       /\ peer.root = Unwrap(tls_config.verifier).root

\* lifecycle of the enclave as the host observes it
LifecycleNext(state, event) ==
    CASE event = "init_ok" /\ state = "Uninitialized" -> "Initialized"
      [] event = "serving" /\ state = "Initialized" -> "Running"
      [] event = "finalize_ok" /\ state # "Failed" -> "Finalized"
      [] event = "failed" /\ state \in {"Uninitialized", "Initialized", "Running"} -> "Failed"
      [] OTHER -> state

\* ------------------------------------------------------- start_service, pure
\* mutants of AcceptedEnclaveAttrs: only the first allow-listed role is looked
\* up; roles the manifest lacks are skipped (filter_map instead of expect)
AcceptedEnclaveAttrs_FirstOnly(info, allow) ==
    IF \A i \in DOMAIN allow : IsSome(get_enclave_attr(info, allow[i]))
    THEN Some(<< Unwrap(get_enclave_attr(info, allow[1])) >>)
    ELSE None

AcceptedEnclaveAttrs_SkipMissing(info, allow) ==
    LET present == SelectSeq(allow, LAMBDA r : IsSome(get_enclave_attr(info, r)))
    IN Some([i \in DOMAIN present |-> Unwrap(get_enclave_attr(info, present[i]))])

\* mutant of AcceptedEnclaveAttrs: a role listed again adds no entry
AcceptedEnclaveAttrs_Dedup(info, allow) ==
    LET first == SelectSeq([i \in DOMAIN allow |-> << i, allow[i] >>],
                           LAMBDA e : \A j \in 1..(e[1] - 1) : allow[j] # e[2])
    IN IF \A i \in DOMAIN allow : IsSome(get_enclave_attr(info, allow[i]))
       THEN Some([i \in DOMAIN first |-> Unwrap(get_enclave_attr(info, first[i][2]))])
       ELSE None

\* lines 81-88: look every allow-listed role up; expect() panics on the first
\* one the manifest lacks, so the Vec exists only when all are present
AcceptedEnclaveAttrs(info, allow) ==
    IF \A i \in DOMAIN allow : IsSome(get_enclave_attr(info, allow[i]))
    THEN Some([i \in DOMAIN allow |-> Unwrap(get_enclave_attr(info, allow[i]))])
    ELSE None

\* lines 91-95 and 107-111: attestation_report_verifier(attrs, root, verifier fn)
attestation_report_verifier(attrs, root) ==
    Some([accepted |-> attrs, root |-> root, verify |-> "universal_quote_verifier"])

\* mutant of ServerConfig: the root of trust is read from the runtime
\* configuration instead of the build-time constant
ServerConfig_RootFromConfig(material, attrs) ==
    [ material |-> Some(material),
      verifier |-> attestation_report_verifier(attrs, Unwrap(config).attestation) ]

\* mutant of ServerConfig: the verifier is never installed
ServerConfig_NoVerifier(material, attrs) ==
    [ material |-> Some(material), verifier |-> None ]

\* lines 89-96: the server configuration carries the attested certificate and
\* the verifier over the accepted measurements
ServerConfig(material, attrs) ==
    [ material |-> Some(material),
      verifier |-> attestation_report_verifier(attrs, AS_ROOT_CA_CERT) ]

\* mutant of ClientConfig: the outbound verifier reuses the inbound accepted set
ClientConfig_InboundAttrs(attrs) ==
    [ material |-> None,
      verifier |-> attestation_report_verifier(Unwrap(accepted_enclave_attrs),
                                               AS_ROOT_CA_CERT) ]

\* lines 106-111: SgxTrustedTlsClientConfig::new() and the verifier over the
\* storage service's measurement alone
ClientConfig(attrs) ==
    [ material |-> None,
      verifier |-> attestation_report_verifier(<< attrs >>, AS_ROOT_CA_CERT) ]

\* lines 115-116
Endpoint(address, client_config) ==
    [ address |-> address, config |-> client_config ]

\* line 130: map_err(|_| TeeServiceError::ServiceError), then Ok(StartServiceOutput)
HostResult(ok) ==
    IF ok THEN "StartServiceOutput" ELSE "ServiceError"

\* --------------------------------------------------------------------- Init
Init ==
    /\ INBOUND_SERVICES \in AllowLists
    /\ lifecycle = "Uninitialized"
    /\ pc = "idle"
    /\ config = NoConfig
    /\ attested_tls_config = None
    /\ enclave_info = None
    /\ accepted_enclave_attrs = None
    /\ server = None
    /\ storage_service_enclave_attrs = None
    /\ storage_service_endpoint = None
    /\ service = None
    /\ conns = << >>
    /\ logged = FALSE
    /\ cause = "none"
    /\ result = "none"

NoLocals ==
    /\ attested_tls_config' = None
    /\ enclave_info' = None
    /\ accepted_enclave_attrs' = None
    /\ server' = None
    /\ storage_service_enclave_attrs' = None
    /\ storage_service_endpoint' = None
    /\ service' = None

\* a panic (unwrap/expect) leaves start_service without returning to
\* handle_start_service: the ECall never yields a TeeServiceResult
Panic(why) ==
    /\ pc' = "panicked"
    /\ cause' = why
    /\ result' = "EnclaveAborted"
    /\ lifecycle' = LifecycleNext(lifecycle, "failed")

\* an Err propagated by ? out of start_service
Fail(why) ==
    /\ pc' = "err"
    /\ cause' = why
    /\ UNCHANGED << result, lifecycle >>

\* ------------------------------------------------------------ ECall handlers
\* lines 134-138
InitEnclave ==
    /\ pc = "idle"
    /\ \E ok \in BOOLEAN :
         /\ result' = IF ok THEN "InitEnclaveOutput" ELSE "InitError"
         /\ cause' = IF ok THEN "none" ELSE "ServiceEnclave::init"
         /\ lifecycle' = LifecycleNext(lifecycle, IF ok THEN "init_ok" ELSE "failed")
    /\ UNCHANGED << INBOUND_SERVICES, pc, config, locals, conns, logged >>

\* lines 140-144
FinalizeEnclave ==
    /\ pc = "idle"
    /\ \E ok \in BOOLEAN :
         /\ result' = IF ok THEN "FinalizeEnclaveOutput" ELSE "FinalizeError"
         /\ cause' = IF ok THEN "none" ELSE "ServiceEnclave::finalize"
         /\ lifecycle' = LifecycleNext(lifecycle, IF ok THEN "finalize_ok" ELSE "failed")
    /\ UNCHANGED << INBOUND_SERVICES, pc, config, locals, conns, logged >>

\* lines 128-130 and 53-61: the handler is entered with the host's configuration
StartService ==
    /\ pc = "idle"
    /\ \E c \in RuntimeConfigs : config' = Some(c)
    /\ pc' = "attest"
    /\ NoLocals
    /\ conns' = << >>
    /\ logged' = FALSE
    /\ cause' = "none"
    /\ result' = "none"
    /\ UNCHANGED << INBOUND_SERVICES, lifecycle >>

\* ------------------------------------------------- start_service, step by step
Cfg == Unwrap(config)

\* mutant of Attest: a rejected attestation is tried again
Attest_Retry ==
    /\ pc = "attest"
    /\ LET material == generate_and_endorse(Unwrap(config).attestation) IN
         IF IsSome(material)
         THEN /\ attested_tls_config' = material
              /\ pc' = "verify"
              /\ UNCHANGED cause
         ELSE /\ cause' = "AttestationError"
              /\ UNCHANGED << attested_tls_config, pc >>
    /\ UNCHANGED << INBOUND_SERVICES, lifecycle, config, enclave_info,
                    accepted_enclave_attrs, server, storage_service_enclave_attrs,
                    storage_service_endpoint, service, conns, logged, result >>

\* mutant of Attest: the attestation is put off and the manifest is verified first
Attest_Deferred ==
    /\ pc = "attest"
    /\ pc' = "verify"
    /\ UNCHANGED << INBOUND_SERVICES, lifecycle, config, locals, conns, logged, cause,
                    result >>

\* lines 62-67: generate_and_endorse().unwrap().attested_tls_config().unwrap()
Attest ==
    /\ pc = "attest"
    /\ LET material == generate_and_endorse(Cfg.attestation) IN
         IF IsSome(material)
         THEN /\ attested_tls_config' = material
              /\ pc' = "verify"
              /\ UNCHANGED << cause, result, lifecycle >>
         ELSE /\ Panic("AttestationError")
              /\ UNCHANGED attested_tls_config
    /\ UNCHANGED << INBOUND_SERVICES, config, enclave_info, accepted_enclave_attrs, server,
                    storage_service_enclave_attrs, storage_service_endpoint, service,
                    conns, logged >>

\* mutant of VerifyManifest: absent bytes or signatures stand for an empty,
\* unchecked manifest
VerifyManifest_MissingIsEmpty ==
    /\ pc = "verify"
    /\ LET c == Unwrap(config) IN
       IF c.enclave_info_bytes = None \/ c.auditor_signatures_bytes = None
       THEN /\ enclave_info' = Some(EmptyManifest)
            /\ pc' = "policy"
            /\ UNCHANGED << cause, result, lifecycle >>
       ELSE LET info == verify_and_new(Unwrap(c.enclave_info_bytes), AUDITOR_PUBLIC_KEYS,
                                       Unwrap(c.auditor_signatures_bytes)) IN
            IF IsSome(info)
            THEN /\ enclave_info' = info
                 /\ pc' = "policy"
                 /\ UNCHANGED << cause, result, lifecycle >>
            ELSE /\ Fail("ManifestVerificationError")
                 /\ UNCHANGED enclave_info
    /\ UNCHANGED << INBOUND_SERVICES, config, attested_tls_config, accepted_enclave_attrs,
                    server, storage_service_enclave_attrs, storage_service_endpoint,
                    service, conns, logged >>

\* mutant of VerifyManifest: the verifier's Err is ignored and the bytes are
\* parsed regardless (a best-effort check)
VerifyManifest_Unchecked ==
    /\ pc = "verify"
    /\ IF Cfg.enclave_info_bytes = None \/ Cfg.auditor_signatures_bytes = None
       THEN Panic("enclave_info missing") /\ UNCHANGED enclave_info
       ELSE /\ enclave_info' = Some(Unwrap(Cfg.enclave_info_bytes).roles)
            /\ pc' = "policy"
            /\ UNCHANGED << cause, result, lifecycle >>
    /\ UNCHANGED << INBOUND_SERVICES, config, attested_tls_config, accepted_enclave_attrs,
                    server, storage_service_enclave_attrs, storage_service_endpoint,
                    service, conns, logged >>

\* lines 68-80: both Options are unwrapped with expect() before the call, whose
\* Err is propagated by ?
VerifyManifest ==
    /\ pc = "verify"
    /\ IF Cfg.enclave_info_bytes = None
       THEN Panic("enclave_info missing") /\ UNCHANGED enclave_info
       ELSE IF Cfg.auditor_signatures_bytes = None
       THEN Panic("auditor signatures missing") /\ UNCHANGED enclave_info
       ELSE LET info == verify_and_new(Unwrap(Cfg.enclave_info_bytes), AUDITOR_PUBLIC_KEYS,
                                       Unwrap(Cfg.auditor_signatures_bytes)) IN
            IF IsSome(info)
            THEN /\ enclave_info' = info
                 /\ pc' = "policy"
                 /\ UNCHANGED << cause, result, lifecycle >>
            ELSE /\ Fail("ManifestVerificationError")
                 /\ UNCHANGED enclave_info
    /\ UNCHANGED << INBOUND_SERVICES, config, attested_tls_config, accepted_enclave_attrs,
                    server, storage_service_enclave_attrs, storage_service_endpoint,
                    service, conns, logged >>

\* lines 81-88
BuildPolicy ==
    /\ pc = "policy"
    /\ LET attrs == AcceptedEnclaveAttrs(Unwrap(enclave_info), INBOUND_SERVICES) IN
         IF IsSome(attrs)
         THEN /\ accepted_enclave_attrs' = attrs
              /\ pc' = "server_config"
              /\ UNCHANGED << cause, result, lifecycle >>
         ELSE /\ Panic("UnknownPeerRoleError")
              /\ UNCHANGED accepted_enclave_attrs
    /\ UNCHANGED << INBOUND_SERVICES, config, attested_tls_config, enclave_info, server,
                    storage_service_enclave_attrs, storage_service_endpoint, service,
                    conns, logged >>

\* lines 89-101: both builder calls are unwrapped; the server is then constructed
\* over the listen address, not yet bound
BuildServer ==
    /\ pc = "server_config"
    /\ \E usable \in BOOLEAN :
         IF usable
         THEN /\ server' = Some([ listen_address |-> Cfg.listen_address,
                                  config |-> ServerConfig(Unwrap(attested_tls_config),
                                                          Unwrap(accepted_enclave_attrs)) ])
              /\ pc' = "storage_attrs"
              /\ UNCHANGED << cause, result, lifecycle >>
         ELSE /\ Panic("ServerConfigError")
              /\ UNCHANGED server
    /\ UNCHANGED << INBOUND_SERVICES, config, attested_tls_config, enclave_info,
                    accepted_enclave_attrs, storage_service_enclave_attrs,
                    storage_service_endpoint, service, conns, logged >>

\* mutant of StorageAttrs: when the manifest has no storage role the first
\* inbound measurement stands in for it
StorageAttrs_Fallback ==
    /\ pc = "storage_attrs"
    /\ LET attrs == get_enclave_attr(Unwrap(enclave_info), STORAGE_SERVICE) IN
         storage_service_enclave_attrs' =
           IF IsSome(attrs) THEN attrs ELSE Some(Unwrap(accepted_enclave_attrs)[1])
    /\ pc' = "client_config"
    /\ UNCHANGED << INBOUND_SERVICES, lifecycle, config, attested_tls_config, enclave_info,
                    accepted_enclave_attrs, server, storage_service_endpoint, service,
                    conns, logged, cause, result >>

\* lines 103-105
StorageAttrs ==
    /\ pc = "storage_attrs"
    /\ LET attrs == get_enclave_attr(Unwrap(enclave_info), STORAGE_SERVICE) IN
         IF IsSome(attrs)
         THEN /\ storage_service_enclave_attrs' = attrs
              /\ pc' = "client_config"
              /\ UNCHANGED << cause, result, lifecycle >>
         ELSE /\ Panic("storage role missing")
              /\ UNCHANGED storage_service_enclave_attrs
    /\ UNCHANGED << INBOUND_SERVICES, config, attested_tls_config, enclave_info,
                    accepted_enclave_attrs, server, storage_service_endpoint, service,
                    conns, logged >>

\* lines 106-116
BuildEndpoint ==
    /\ pc = "client_config"
    /\ storage_service_endpoint' =
         Some(Endpoint(Cfg.storage_address,
                       ClientConfig(Unwrap(storage_service_enclave_attrs))))
    /\ pc' = "new_service"
    /\ UNCHANGED << INBOUND_SERVICES, lifecycle, config, attested_tls_config, enclave_info,
                    accepted_enclave_attrs, server, storage_service_enclave_attrs,
                    service, conns, logged, cause, result >>

\* mutant of NewService: a service that could not be constructed is passed over
NewService_IgnoreErr ==
    /\ pc = "new_service"
    /\ \E reachable \in BOOLEAN, backend \in Peers :
         /\ service' = IF reachable /\ PeerVerified(Unwrap(storage_service_endpoint).config,
                                                    backend)
                       THEN Some([ endpoint |-> Unwrap(storage_service_endpoint),
                                   channel_peer |-> backend ])
                       ELSE None
         /\ cause' = IF reachable THEN cause ELSE "ServiceInitError"
    /\ pc' = "server_start"
    /\ UNCHANGED << INBOUND_SERVICES, lifecycle, config, attested_tls_config, enclave_info,
                    accepted_enclave_attrs, server, storage_service_enclave_attrs,
                    storage_service_endpoint, conns, logged, result >>

\* line 118: TeaclaveManagementService::new(endpoint)? connects the endpoint to
\* the storage service, whose certificate is checked by the endpoint's verifier
NewService ==
    /\ pc = "new_service"
    /\ \E reachable \in BOOLEAN, backend \in Peers :
         IF ~reachable
         THEN Fail("ServiceInitError") /\ UNCHANGED service
         ELSE IF ~PeerVerified(Unwrap(storage_service_endpoint).config, backend)
         THEN Fail("PeerTrustError") /\ UNCHANGED service
         ELSE /\ service' = Some([ endpoint |-> Unwrap(storage_service_endpoint),
                                   channel_peer |-> backend ])
              /\ pc' = "server_start"
              /\ UNCHANGED << cause, result, lifecycle >>
    /\ UNCHANGED << INBOUND_SERVICES, config, attested_tls_config, enclave_info,
                    accepted_enclave_attrs, server, storage_service_enclave_attrs,
                    storage_service_endpoint, conns, logged >>

\* line 119: server.start(service) binds the listener and blocks in the accept
\* loop; a bind failure is the Err arm of the match (lines 121-123)
ServerStart ==
    /\ pc = "server_start"
    /\ IF Unwrap(server).listen_address = "listen_ok"
       THEN /\ pc' = "serving"
            /\ lifecycle' = LifecycleNext(lifecycle, "serving")
            /\ UNCHANGED logged
       ELSE /\ pc' = "ok"
            /\ logged' = TRUE
            /\ UNCHANGED lifecycle
    /\ UNCHANGED << INBOUND_SERVICES, config, locals, conns, cause, result >>

\* the listener accepts a transport connection; its handshake is still to run
Accept ==
    /\ pc = "serving"
    /\ Len(conns) < MaxConns
    /\ \E peer \in Peers : conns' = Append(conns, [peer |-> peer, state |-> "handshaking"])
    /\ UNCHANGED << INBOUND_SERVICES, lifecycle, pc, config, locals, logged, cause, result >>

\* mutant of Handshake: a failed handshake ends the accept loop with an error
Handshake_Fatal(i) ==
    /\ pc = "serving"
    /\ conns[i].state = "handshaking"
    /\ IF PeerVerified(Unwrap(server).config, conns[i].peer)
       THEN /\ conns' = [conns EXCEPT ![i].state = "handler"]
            /\ UNCHANGED << pc, logged >>
       ELSE /\ conns' = [conns EXCEPT ![i].state = "rejected"]
            /\ pc' = "ok"
            /\ logged' = TRUE
    /\ UNCHANGED << INBOUND_SERVICES, lifecycle, config, locals, cause, result >>

\* the handshake of one accepted connection: the peer is dispatched to the
\* request handler or its connection is closed
HandshakeOutcome(tls_config, peer) ==
    IF PeerVerified(tls_config, peer) THEN "handler" ELSE "rejected"

Handshake(i) ==
    /\ pc = "serving"
    /\ conns[i].state = "handshaking"
    /\ conns' = [conns EXCEPT ![i].state =
                    HandshakeOutcome(Unwrap(server).config, conns[i].peer)]
    /\ UNCHANGED << INBOUND_SERVICES, lifecycle, pc, config, locals, logged, cause, result >>

\* mutant of ServerStop: the server's Err is logged and propagated with ?
ServerStop_Propagate ==
    /\ pc = "serving"
    /\ \E failed \in BOOLEAN :
         /\ logged' = failed
         /\ pc' = IF failed THEN "err" ELSE "ok"
         /\ cause' = IF failed THEN "ServerError" ELSE cause
    /\ conns' = << >>
    /\ UNCHANGED << INBOUND_SERVICES, lifecycle, config, locals, result >>

\* server.start returns, dropping the listener and its connections: Ok(_) is
\* ignored, Err(e) is logged (lines 119-124)
ServerStop ==
    /\ pc = "serving"
    /\ \E failed \in BOOLEAN : logged' = failed
    /\ pc' = "ok"
    /\ conns' = << >>
    /\ UNCHANGED << INBOUND_SERVICES, lifecycle, config, locals, cause, result >>

\* mutant of Return: the handler answers the host while the listener still serves
Return_WhileServing ==
    /\ pc \in {"ok", "err", "serving"}
    /\ result' = HostResult(pc # "err")
    /\ lifecycle' = IF pc # "err" THEN lifecycle ELSE LifecycleNext(lifecycle, "failed")
    /\ pc' = "idle"
    /\ config' = NoConfig
    /\ NoLocals
    /\ conns' = << >>
    /\ UNCHANGED << INBOUND_SERVICES, logged, cause >>

\* lines 125 and 130-131: start_service returns and the handler maps its result
Return ==
    /\ pc \in {"ok", "err"}
    /\ result' = HostResult(pc = "ok")
    /\ lifecycle' = IF pc = "ok" THEN lifecycle ELSE LifecycleNext(lifecycle, "failed")
    /\ pc' = "idle"
    /\ config' = NoConfig
    /\ NoLocals
    /\ conns' = << >>
    /\ UNCHANGED << INBOUND_SERVICES, logged, cause >>

Next ==
    \/ InitEnclave
    \/ FinalizeEnclave
    \/ StartService
    \/ Attest
    \/ VerifyManifest
    \/ BuildPolicy
    \/ BuildServer
    \/ StorageAttrs
    \/ BuildEndpoint
    \/ NewService
    \/ ServerStart
    \/ Accept
    \/ \E i \in 1..MaxConns : i <= Len(conns) /\ Handshake(i)
    \/ ServerStop
    \/ Return

Spec == Init /\ [][Next]_vars

\* ================================================================== claims
InCall == pc \notin {"idle"} /\ IsSome(config)
AllowedRoles == Range(INBOUND_SERVICES)
StartFailureCauses ==
    { "AttestationError", "enclave_info missing", "auditor signatures missing",
      "ManifestVerificationError", "UnknownPeerRoleError", "ServerConfigError",
      "storage role missing", "ServiceInitError", "PeerTrustError" }
StartOver == pc \in {"idle", "panicked"}

\* C1: whenever StartService has ended because a step of start_service failed,
\* what the host received is ServiceError, whatever the cause.
C1_EveryFailureIsServiceError ==
    (StartOver /\ cause \in StartFailureCauses) => result = "ServiceError"

\* C2: once the inbound policy is built, its accepted measurements are exactly
\* the verified manifest's measurements of the allow-listed roles, all of which
\* the manifest has; the server's verifier carries exactly that set.
C2_AcceptedIsAllowListed ==
    /\ IsSome(accepted_enclave_attrs) =>
         /\ IsSome(enclave_info)
         /\ AllowedRoles \subseteq DOMAIN Unwrap(enclave_info)
         /\ Range(Unwrap(accepted_enclave_attrs))
              = {Unwrap(enclave_info)[r] : r \in AllowedRoles}
    /\ IsSome(server) =>
         /\ IsSome(accepted_enclave_attrs)
         /\ IsSome(Unwrap(server).config.verifier)
         /\ Range(Unwrap(Unwrap(server).config.verifier).accepted)
              = {Unwrap(enclave_info)[r] : r \in AllowedRoles}

\* C2 witness: a server over an allow-list of two different roles, whose
\* policy leaves out the measurement the manifest gives a role not allow-listed
C2_Witness ==
    /\ IsSome(server)
    /\ STORAGE_SERVICE \in DOMAIN Unwrap(enclave_info)
    /\ STORAGE_SERVICE \notin AllowedRoles
    /\ Unwrap(enclave_info)[STORAGE_SERVICE] \notin Range(Unwrap(accepted_enclave_attrs))
    /\ Len(INBOUND_SERVICES) > 1
    /\ INBOUND_SERVICES[1] # INBOUND_SERVICES[2]

\* C3: when the verified manifest lacks an allow-listed role, no policy and no
\* server exists, and start_service stops at the policy step with the unknown
\* role as the cause; a policy that exists covers every allow-listed role.
C3_NoPartialPolicy ==
    /\ (IsSome(enclave_info) /\ ~(AllowedRoles \subseteq DOMAIN Unwrap(enclave_info))) =>
         /\ accepted_enclave_attrs = None
         /\ server = None
         /\ pc \in {"policy", "panicked"}
         /\ pc = "panicked" => cause = "UnknownPeerRoleError"
    /\ IsSome(accepted_enclave_attrs) =>
         /\ Len(Unwrap(accepted_enclave_attrs)) = Len(INBOUND_SERVICES)
         /\ \A i \in DOMAIN INBOUND_SERVICES :
              /\ INBOUND_SERVICES[i] \in DOMAIN Unwrap(enclave_info)
              /\ Unwrap(accepted_enclave_attrs)[i] = Unwrap(enclave_info)[INBOUND_SERVICES[i]]

\* C3 witness: the policy step has failed on a manifest that has one
\* allow-listed role and lacks another
C3_Witness ==
    /\ pc = "panicked"
    /\ cause = "UnknownPeerRoleError"
    /\ AllowedRoles \cap DOMAIN Unwrap(enclave_info) # {}
    /\ AllowedRoles \ DOMAIN Unwrap(enclave_info) # {}

NothingBuilt ==
    /\ accepted_enclave_attrs = None
    /\ server = None
    /\ storage_service_enclave_attrs = None
    /\ storage_service_endpoint = None
    /\ service = None
    /\ conns = << >>
    /\ pc \notin {"server_config", "storage_attrs", "client_config", "new_service",
                  "server_start", "serving", "ok"}

ManifestVerifies(c) ==
    /\ IsSome(c.enclave_info_bytes)
    /\ IsSome(c.auditor_signatures_bytes)
    /\ IsSome(verify_and_new(Unwrap(c.enclave_info_bytes), AUDITOR_PUBLIC_KEYS,
                             Unwrap(c.auditor_signatures_bytes)))

\* C4: during a StartService call whose manifest is malformed or not signed by
\* the auditor keys, no policy, server, client endpoint or service exists, and
\* no manifest is held; a verification failure leaves nothing built.
C4_RejectedBeforeAnythingBuilt ==
    /\ (InCall /\ ~ManifestVerifies(Cfg)) => (enclave_info = None /\ NothingBuilt)
    /\ enclave_info = None => NothingBuilt
    /\ cause = "ManifestVerificationError" => (enclave_info = None /\ NothingBuilt)

\* C4 witness: verification has failed on well-formed bytes that lack an
\* auditor's signature, after the attestation succeeded
C4_Witness ==
    /\ pc = "err"
    /\ cause = "ManifestVerificationError"
    /\ Unwrap(Cfg.enclave_info_bytes).wellformed
    /\ Unwrap(Cfg.auditor_signatures_bytes) # {}
    /\ IsSome(attested_tls_config)

\* C5: a connection is with the request handler only if its peer's measurement
\* is in the accepted set and its report chains to the attestation root; a
\* connection whose handshake is over and whose peer fails either is rejected.
C5_HandlerOnlyForVerifiedPeers ==
    \A i \in DOMAIN conns :
        LET peer == conns[i].peer
            trusted == /\ peer.identity \in Range(Unwrap(accepted_enclave_attrs))
                       /\ peer.root = AS_ROOT_CA_CERT
        IN /\ IsSome(accepted_enclave_attrs)
           /\ conns[i].state = "handler" => trusted
           /\ (conns[i].state # "handshaking" /\ ~trusted) => conns[i].state = "rejected"

\* C5 witness: one peer rejected for its measurement, one rejected for its
\* root although its measurement is accepted
C5_Witness ==
    /\ \E i \in DOMAIN conns :
         /\ conns[i].state = "rejected"
         /\ conns[i].peer.identity \notin Range(Unwrap(accepted_enclave_attrs))
         /\ conns[i].peer.root = AS_ROOT_CA_CERT
    /\ \E i \in DOMAIN conns :
         /\ conns[i].state = "rejected"
         /\ conns[i].peer.identity \in Range(Unwrap(accepted_enclave_attrs))
         /\ conns[i].peer.root # AS_ROOT_CA_CERT

\* C6: a step that rejects one connection's handshake leaves the listener
\* serving, every other connection as it was, and the call unreturned.
C6_RejectionIsIsolated ==
    [][ \A i \in DOMAIN conns :
          ( /\ conns[i].state = "handshaking"
            /\ i \in DOMAIN conns'
            /\ conns'[i].state = "rejected" )
          => /\ pc = "serving" /\ pc' = "serving"
             /\ Len(conns') = Len(conns)
             /\ \A j \in DOMAIN conns \ {i} : conns'[j] = conns[j]
             /\ UNCHANGED << server, service, result, logged, lifecycle >> ]_vars

\* C6 witness: the listener is serving with a rejected connection, a connection
\* with the handler, and one whose handshake is still to run
C6_Witness ==
    /\ pc = "serving"
    /\ \E i, j \in DOMAIN conns :
         /\ i < j
         /\ conns[i].state = "rejected"
         /\ conns[j].state = "handler"
    /\ result = "none"

\* C7 as stated: manifest verification, policy construction, local attestation,
\* server, client -- each only after the ones before it.
C7_SpecOrder ==
    /\ IsSome(accepted_enclave_attrs) => IsSome(enclave_info)
    /\ IsSome(attested_tls_config) => IsSome(accepted_enclave_attrs)
    /\ IsSome(server) => IsSome(attested_tls_config)
    /\ IsSome(storage_service_endpoint) => IsSome(server)

\* C7 amended: local attestation, manifest verification, policy construction,
\* server construction, backend measurement lookup, client endpoint, service,
\* serving -- each step is at hand or done only when all before it succeeded.
C7_CodeOrder ==
    /\ (pc = "verify" \/ IsSome(enclave_info)) => IsSome(attested_tls_config)
    /\ (pc = "policy" \/ IsSome(accepted_enclave_attrs)) => IsSome(enclave_info)
    /\ (pc = "server_config" \/ IsSome(server)) => IsSome(accepted_enclave_attrs)
    /\ (pc = "storage_attrs" \/ IsSome(storage_service_enclave_attrs)) => IsSome(server)
    /\ (pc = "client_config" \/ IsSome(storage_service_endpoint))
         => IsSome(storage_service_enclave_attrs)
    /\ (pc = "new_service" \/ IsSome(service)) => IsSome(storage_service_endpoint)
    /\ pc \in {"server_start", "serving", "ok"} => IsSome(service)
    /\ conns # << >> => pc = "serving"

\* C7 witness: the attestation is done and the manifest is not yet verified
C7_Witness ==
    /\ pc = "verify"
    /\ IsSome(attested_tls_config)
    /\ enclave_info = None

\* C8: start_service runs only in a call made while the enclave is Initialized
\* (right after the attestation the lifecycle is still the one the call found).
C8_StartOnlyWhenInitialized ==
    pc = "verify" => lifecycle = "Initialized"

\* C9: the server and the client endpoint both carry the attested material.
C9_EveryEndpointAttested ==
    /\ IsSome(server) =>
         /\ IsSome(attested_tls_config)
         /\ Unwrap(server).config.material = attested_tls_config
    /\ IsSome(storage_service_endpoint) =>
         /\ IsSome(attested_tls_config)
         /\ Unwrap(storage_service_endpoint).config.material = attested_tls_config

\* C10: the client endpoint's verifier accepts the manifest's measurement of
\* teaclave_storage_service and nothing else, under the attestation root; a
\* service exists only over a channel to a peer presenting exactly that, and a
\* peer-trust failure leaves no service.
C10_OutboundAcceptsStorageOnly ==
    /\ IsSome(storage_service_endpoint) =>
         LET v == Unwrap(storage_service_endpoint).config.verifier IN
           /\ IsSome(v)
           /\ STORAGE_SERVICE \in DOMAIN Unwrap(enclave_info)
           /\ Unwrap(v).accepted = << Unwrap(enclave_info)[STORAGE_SERVICE] >>
           /\ Unwrap(v).root = AS_ROOT_CA_CERT
    /\ IsSome(service) =>
         /\ Unwrap(service).channel_peer.identity = Unwrap(enclave_info)[STORAGE_SERVICE]
         /\ Unwrap(service).channel_peer.root = AS_ROOT_CA_CERT
    /\ cause = "PeerTrustError" => service = None

\* C10 witness: a service is connected although the inbound policy accepts a
\* measurement that is not the storage service's
C10_Witness ==
    /\ IsSome(service)
    /\ \E m \in Range(Unwrap(accepted_enclave_attrs)) :
         m # Unwrap(enclave_info)[STORAGE_SERVICE]

\* the inbound and the outbound verifier as the build-time constants and the
\* verified manifest alone determine them
InboundVerifierOf(info) ==
    attestation_report_verifier([i \in DOMAIN INBOUND_SERVICES |-> info[INBOUND_SERVICES[i]]],
                                AS_ROOT_CA_CERT)
OutboundVerifierOf(info) ==
    attestation_report_verifier(<< info[STORAGE_SERVICE] >>, AS_ROOT_CA_CERT)

\* C11: whatever the runtime configuration's other fields are, the manifest in
\* use is the one the build-time auditor keys verify, and the inbound and the
\* outbound verifier are functions of that manifest, the build-time allow-list
\* and the build-time root certificate alone -- so two runs on the same
\* manifest have the same trust policies.
C11_PolicyFromBuildConstantsOnly ==
    /\ IsSome(enclave_info) =>
         /\ AUDITOR_PUBLIC_KEYS \subseteq Unwrap(Cfg.auditor_signatures_bytes)
         /\ enclave_info = Some(Unwrap(Cfg.enclave_info_bytes).roles)
    /\ IsSome(server) =>
         Unwrap(server).config.verifier = InboundVerifierOf(Unwrap(enclave_info))
    /\ IsSome(storage_service_endpoint) =>
         Unwrap(storage_service_endpoint).config.verifier
           = OutboundVerifierOf(Unwrap(enclave_info))

\* C11 witness: both policies are built in a run whose listen address differs
\* from the one the service can bind
C11_Witness ==
    /\ IsSome(server)
    /\ IsSome(storage_service_endpoint)
    /\ Cfg.listen_address = "listen_unbindable"

\* C12: the host is given the outcome of StartService only by a step taken
\* after server.start has returned, and server.start has returned only from
\* serving or from a failed bind; nothing is served once it has returned.
C12_SuccessOnlyAfterServerReturned ==
    /\ [][ (pc # "idle" /\ pc' = "idle" /\ result' = "StartServiceOutput") => pc = "ok" ]_vars
    /\ [][ (pc # "ok" /\ pc' = "ok") => pc \in {"serving", "server_start"} ]_vars
    /\ [][ (pc # "idle" /\ pc' = "idle") => pc \in {"ok", "err"} ]_vars
    /\ [](pc = "ok" => conns = << >>)

\* C12 witness: the host has StartServiceOutput after the server served and stopped
C12_Witness ==
    /\ pc = "idle"
    /\ result = "StartServiceOutput"
    /\ lifecycle = "Running"

\* C13: an error of server.start is logged and changes nothing else: a call
\* that logged it is past every setup step with no failure cause, and what the
\* host gets from it is StartServiceOutput, never ServiceError.
C13_ServerErrorStillSuccess ==
    /\ logged =>
         /\ pc \in {"ok", "idle"}
         /\ result \notin {"ServiceError", "EnclaveAborted"}
         /\ cause \notin StartFailureCauses
         /\ pc = "ok" => IsSome(service)
    /\ (pc = "idle" /\ logged /\ result \in {"StartServiceOutput", "ServiceError"})
         => result = "StartServiceOutput"

\* C13 witness: the server served, failed and was logged, and the host has
\* StartServiceOutput
C13_Witness ==
    /\ pc = "idle"
    /\ logged
    /\ lifecycle = "Running"
    /\ result = "StartServiceOutput"

\* position of each step in start_service
StepRank(p) ==
    CASE p = "attest" -> 1
      [] p = "verify" -> 2
      [] p = "policy" -> 3
      [] p = "server_config" -> 4
      [] p = "storage_attrs" -> 5
      [] p = "client_config" -> 6
      [] p = "new_service" -> 7
      [] p = "server_start" -> 8
      [] p = "serving" -> 9
      [] OTHER -> 10

\* C14: after a failed attestation the call is over for good with nothing
\* built -- no material, manifest, policy, endpoint, service or connection --
\* and within a call every step moves on to a later one, so none is repeated.
C14_AttestationFailureIsFatal ==
    /\ [](cause = "AttestationError" =>
            /\ pc = "panicked"
            /\ attested_tls_config = None
            /\ enclave_info = None
            /\ NothingBuilt)
    /\ [][ (pc # "idle" /\ pc' # pc /\ pc' # "idle") => StepRank(pc') > StepRank(pc) ]_vars
    /\ [][ pc = "panicked" => pc' = "panicked" ]_vars

\* C14 witness: the attestation service has rejected the enclave
C14_Witness ==
    /\ pc = "panicked"
    /\ cause = "AttestationError"
    /\ Cfg.attestation = "as_rejects"

\* C15: while the enclave is Failed the service is never serving.
C15_FailedNeverRuns ==
    lifecycle = "Failed" => pc # "serving"

Occurrences(seq, x) == Cardinality({i \in DOMAIN seq : seq[i] = x})

\* C16 as stated: the accepted list is as long as the allow-list, and every
\* allow-listed role contributes a single entry however often it is listed.
C16_SetSemantics ==
    IsSome(accepted_enclave_attrs) =>
      /\ Len(Unwrap(accepted_enclave_attrs)) = Len(INBOUND_SERVICES)
      /\ \A r \in AllowedRoles :
           Cardinality({i \in DOMAIN Unwrap(accepted_enclave_attrs) :
                          INBOUND_SERVICES[i] = r}) = 1

\* C16 amended: the accepted list has one entry per allow-list element, in the
\* allow-list's order, so a role listed n times contributes n equal entries;
\* the set of measurements accepted is the same for every allow-list naming
\* the same roles, in any order and with any repetition.
C16_ListSemantics ==
    IsSome(accepted_enclave_attrs) =>
      LET attrs == Unwrap(accepted_enclave_attrs)
          info == Unwrap(enclave_info)
      IN /\ Len(attrs) = Len(INBOUND_SERVICES)
         /\ \A i \in DOMAIN attrs : attrs[i] = info[INBOUND_SERVICES[i]]
         /\ \A r \in AllowedRoles :
              Cardinality({i \in DOMAIN attrs : INBOUND_SERVICES[i] = r})
                = Occurrences(INBOUND_SERVICES, r)
         /\ \A other \in AllowLists :
              Range(other) = AllowedRoles =>
                /\ IsSome(AcceptedEnclaveAttrs(info, other))
                /\ Range(Unwrap(AcceptedEnclaveAttrs(info, other))) = Range(attrs)

\* C16 witness: a policy built from an allow-list that names one role twice
C16_Witness ==
    /\ IsSome(accepted_enclave_attrs)
    /\ Len(INBOUND_SERVICES) > 1
    /\ INBOUND_SERVICES[1] = INBOUND_SERVICES[2]
    /\ Len(Unwrap(accepted_enclave_attrs)) > 1

\* C17: while the server is started or serving, the service exists and holds
\* the configured backend endpoint; when the service could not be constructed
\* the server never serves and the host gets ServiceError.
C17_ServiceBeforeServing ==
    /\ pc \in {"server_start", "serving"} =>
         /\ IsSome(storage_service_endpoint)
         /\ IsSome(service)
         /\ Unwrap(service).endpoint = Unwrap(storage_service_endpoint)
         /\ Unwrap(service).endpoint.address = Cfg.storage_address
    /\ conns # << >> => IsSome(service)
    /\ cause \in {"ServiceInitError", "PeerTrustError"} =>
         /\ pc \in {"err", "idle"}
         /\ service = None
         /\ conns = << >>
         /\ ~logged
         /\ pc = "idle" => result = "ServiceError"

\* C17 witness: the service could not be constructed and the host has ServiceError
C17_Witness ==
    /\ pc = "idle"
    /\ cause = "ServiceInitError"
    /\ result = "ServiceError"

\* C18: when the verified manifest has no teaclave_storage_service entry, no
\* client endpoint or service is built and the server is never started,
\* whether or not the inbound policy and the server were built.
C18_StorageRoleRequired ==
    (IsSome(enclave_info) /\ STORAGE_SERVICE \notin DOMAIN Unwrap(enclave_info)) =>
      /\ storage_service_enclave_attrs = None
      /\ storage_service_endpoint = None
      /\ service = None
      /\ conns = << >>
      /\ pc \in {"policy", "server_config", "storage_attrs", "panicked"}
      /\ (pc = "panicked" /\ IsSome(server)) => cause = "storage role missing"

\* C18 witness: the inbound policy and the server are built from a manifest
\* that has every allow-listed role, and the call has stopped at the storage role
C18_Witness ==
    /\ pc = "panicked"
    /\ cause = "storage role missing"
    /\ IsSome(accepted_enclave_attrs)
    /\ IsSome(server)
    /\ AllowedRoles \subseteq DOMAIN Unwrap(enclave_info)

\* C19: a call whose configuration has no manifest bytes or no signature bytes
\* ends at the manifest step at the latest: no manifest is held, nothing is
\* built from one, and once the attestation has succeeded the call stops there.
C19_MissingBytesAbort ==
    (InCall /\ (Cfg.enclave_info_bytes = None \/ Cfg.auditor_signatures_bytes = None)) =>
      /\ enclave_info = None
      /\ NothingBuilt
      /\ pc \in {"attest", "verify", "panicked"}
      /\ (pc = "panicked" /\ IsSome(attested_tls_config)) =>
           cause = IF Cfg.enclave_info_bytes = None
                   THEN "enclave_info missing"
                   ELSE "auditor signatures missing"

\* C19 witness: the call has stopped on signature bytes that are absent while
\* the manifest bytes are present
C19_Witness ==
    /\ pc = "panicked"
    /\ cause = "auditor signatures missing"
    /\ IsSome(Cfg.enclave_info_bytes)
    /\ IsSome(attested_tls_config)

====
